---- MODULE Spec2Model ----
(***************************************************************************)
(* pcd-rs: the record serialization engine (src/src/record.rs), the        *)
(* sequential writer (src/src/seq_writer.rs) and the error taxonomy        *)
(* (src/src/error.rs).                                                     *)
(*                                                                         *)
(* Bytes are naturals 0..255; text is a sequence of ASCII codes.  Integer  *)
(* element values are integers of the kind's range.  An f32/f64 value is   *)
(* denoted by its shortest round-trip decimal: a sign, the digits before   *)
(* the point and the digits after it (or by the class "nan").              *)
(***************************************************************************)
EXTENDS Integers, Sequences, FiniteSets, TLC

VARIABLES
    wstate,            \* writer life cycle: "none", "builder", "open", "panicked"
    builder,           \* SeqWriterBuilder fields (width, height, viewpoint, data_kind, record_spec)
    sink,              \* the bytes of the Write + Seek sink (SeqWriter.writer)
    pos,               \* the sink's cursor, a byte offset
    num_records,       \* SeqWriter.num_records
    points_arg_begin,  \* SeqWriter.points_arg_begin
    points_arg_width,  \* SeqWriter.points_arg_width
    wcall,             \* the last writer operation: its name, its input and what it returned
    pushed,            \* history: the records pushed successfully, in order
    call               \* the last codec call: its name, its inputs and what it returned

wvars == <<wstate, builder, sink, pos, num_records, points_arg_begin, points_arg_width, wcall, pushed>>
vars == <<wstate, builder, sink, pos, num_records, points_arg_begin, points_arg_width, wcall, pushed, call>>

----------------------------------------------------------------------------
(* Text as bytes *)

AsciiTable ==
    <<
       " ", "!", "", "#", "$", "%", "&", "'", "(", ")", "*", "+", ",", "-", ".", "/",
       "0", "1", "2", "3", "4", "5", "6", "7", "8", "9", ":", ";", "<", "=", ">", "?",
       "@", "A", "B", "C", "D", "E", "F", "G", "H", "I", "J", "K", "L", "M", "N", "O",
       "P", "Q", "R", "S", "T", "U", "V", "W", "X", "Y", "Z", "[", "", "]", "^", "_",
       "", "a", "b", "c", "d", "e", "f", "g", "h", "i", "j", "k", "l", "m", "n", "o",
       "p", "q", "r", "s", "t", "u", "v", "w", "x", "y", "z", "{", "|", "}", "~"
    >>

\* The ASCII code of a one-character string; "\n" is the line feed.  The table
\* lists the printable characters 32..126 (those never written are left empty).
Code(c) == IF c = "\n" THEN 10 ELSE 31 + (CHOOSE i \in 1..Len(AsciiTable) : AsciiTable[i] = c)

\* The bytes of a text given as a tuple of one-character strings.
Str(t) == [i \in 1..Len(t) |-> Code(t[i])]

RECURSIVE Concat(_)
Concat(ss) == IF ss = <<>> THEN <<>> ELSE Head(ss) \o Concat(Tail(ss))

\* slice.join(sep) of the standard library
RECURSIVE Join(_, _)
Join(ss, sep) ==
    IF ss = <<>> THEN <<>>
    ELSE IF Len(ss) = 1 THEN ss[1]
    ELSE ss[1] \o sep \o Join(Tail(ss), sep)

Repeat(b, n) == [i \in 1..n |-> b]

SP == Code(" ")
NL == Code("\n")
MINUS == Code("-")
PLUS == Code("+")
DOT == Code(".")
ZERO == Code("0")

IsDigit(b) == b >= ZERO /\ b <= ZERO + 9

----------------------------------------------------------------------------
(* ValueKind and the numeric conversions of the standard library and of    *)
(* byteorder that the codec calls                                          *)

ValueKinds == {"U8", "U16", "U32", "I8", "I16", "I32", "F32", "F64"}
IntKinds == {"U8", "U16", "U32", "I8", "I16", "I32"}
FloatKinds == {"F32", "F64"}

\* KindSize with the arm of F32 taken for F64 as well.
KindSizeF64AsF32(kind) ==
    CASE kind \in {"U8", "I8"} -> 1
      [] kind \in {"U16", "I16"} -> 2
      [] kind \in {"U32", "I32", "F32", "F64"} -> 4

\* The byte width of a kind: the SIZE entry of the header, and the width
\* byteorder reads and writes.
KindSize(kind) ==
    CASE kind \in {"U8", "I8"} -> 1
      [] kind \in {"U16", "I16"} -> 2
      [] kind \in {"U32", "I32", "F32"} -> 4
      [] kind = "F64" -> 8

\* The TYPE entry of the header.
KindType(kind) ==
    CASE kind \in {"U8", "U16", "U32"} -> "U"
      [] kind \in {"I8", "I16", "I32"} -> "I"
      [] kind \in {"F32", "F64"} -> "F"

IsSigned(kind) == kind \in {"I8", "I16", "I32"}

\* The least and greatest value of an integer kind.  A u32 is represented up
\* to 2^31 - 1 only, the greatest integer of the arithmetic used here.
KindMin(kind) ==
    CASE kind = "I8" -> -128
      [] kind = "I16" -> -32768
      [] kind = "I32" -> -2147483647 - 1
      [] OTHER -> 0

KindMax(kind) ==
    CASE kind = "I8" -> 127
      [] kind = "I16" -> 32767
      [] kind = "U8" -> 255
      [] kind = "U16" -> 65535
      [] OTHER -> 2147483647

\* u64/usize::to_string
RECURSIVE NatToString(_)
NatToString(n) ==
    IF n < 10 THEN <<ZERO + n>> ELSE NatToString(n \div 10) \o <<ZERO + (n % 10)>>

\* i8/i16/i32::to_string: a minus sign and the digits of the magnitude,
\* computed on the negative side so that the least i32 does not overflow.
RECURSIVE NegDigits(_)
NegDigits(v) ==
    LET q == (v + 9) \div 10
    IN  IF v > -10 THEN <<ZERO - v>> ELSE NegDigits(q) \o <<ZERO + (q * 10 - v)>>

IntToString(v) == IF v >= 0 THEN NatToString(v) ELSE <<MINUS>> \o NegDigits(v)

Ok(v) == [tag |-> "Ok", val |-> v]
Err(e) == [tag |-> "Err", err |-> e]
IsOk(r) == r.tag = "Ok"
IsErr(r) == r.tag = "Err"

\* core::num::ParseIntError, core::num::ParseFloatError, std::io::Error
ParseIntError == [kind |-> "ParseIntError"]
ParseFloatError == [kind |-> "ParseFloatError"]
IoUnexpectedEof == [kind |-> "Io", why |-> "UnexpectedEof"]

\* The digit loop of from_str_radix: checked multiply by ten and checked
\* add (subtract on the negative side); a non-digit is an error.
RECURSIVE ParseDigits(_, _, _, _)
ParseDigits(digits, acc, positive, kind) ==
    IF digits = <<>> THEN Ok(acc)
    ELSE IF ~IsDigit(Head(digits)) THEN Err(ParseIntError)
    ELSE LET d == Head(digits) - ZERO
         IN  IF positive
             THEN IF acc > (KindMax(kind) - d) \div 10 THEN Err(ParseIntError)
                  ELSE ParseDigits(Tail(digits), acc * 10 + d, positive, kind)
             ELSE IF acc < (KindMin(kind) + d + 9) \div 10 THEN Err(ParseIntError)
                  ELSE ParseDigits(Tail(digits), acc * 10 - d, positive, kind)

\* ParseInt with the minus sign refused by every kind.
ParseIntUnsigned(tok, kind) ==
    IF tok = <<>> THEN Err(ParseIntError)
    ELSE IF Head(tok) \in {PLUS, MINUS} /\ Len(tok) = 1 THEN Err(ParseIntError)
    ELSE IF Head(tok) = PLUS THEN ParseDigits(Tail(tok), 0, TRUE, kind)
    ELSE ParseDigits(tok, 0, TRUE, kind)

\* str::parse::<u8|u16|u32|i8|i16|i32>: an empty text and a lone sign are
\* errors; "+" is accepted by every kind, "-" by the signed kinds only.
ParseInt(tok, kind) ==
    IF tok = <<>> THEN Err(ParseIntError)
    ELSE IF Head(tok) \in {PLUS, MINUS} /\ Len(tok) = 1 THEN Err(ParseIntError)
    ELSE IF Head(tok) = PLUS THEN ParseDigits(Tail(tok), 0, TRUE, kind)
    ELSE IF Head(tok) = MINUS /\ IsSigned(kind) THEN ParseDigits(Tail(tok), 0, FALSE, kind)
    ELSE ParseDigits(tok, 0, TRUE, kind)

\* The longest prefix of digits of a text, and what follows it.
RECURSIVE DigitPrefixLen(_)
DigitPrefixLen(t) ==
    IF t = <<>> \/ ~IsDigit(Head(t)) THEN 0 ELSE 1 + DigitPrefixLen(Tail(t))

RECURSIVE StripLeadingZeros(_)
StripLeadingZeros(t) ==
    IF Len(t) > 1 /\ Head(t) = ZERO THEN StripLeadingZeros(Tail(t)) ELSE t

RECURSIVE StripTrailingZeros(_)
StripTrailingZeros(t) ==
    IF t # <<>> /\ t[Len(t)] = ZERO THEN StripTrailingZeros(SubSeq(t, 1, Len(t) - 1)) ELSE t

\* An f32/f64 value: its sign and the decimal digits (0..9) of its shortest
\* round-trip decimal, without leading zeros before the point or trailing
\* zeros after it; or an infinity; or a NaN.
Finite(neg, int, frac) == [class |-> "finite", neg |-> neg, int |-> int, frac |-> frac]
Infinity(neg) == [class |-> "inf", neg |-> neg, int |-> <<>>, frac |-> <<>>]
NaN == [class |-> "nan", neg |-> FALSE, int |-> <<>>, frac |-> <<>>]

DigitsOf(t) == [i \in 1..Len(t) |-> t[i] - ZERO]
TextOf(ds) == [i \in 1..Len(ds) |-> ZERO + ds[i]]
ToLower(t) == [i \in 1..Len(t) |-> IF t[i] >= 65 /\ t[i] <= 90 THEN t[i] + 32 ELSE t[i]]

\* str::parse::<f32|f64>: an optional sign, then nan, inf or infinity in any
\* case, or digits with an optional point, at least one digit in all.  (The
\* exponent is not modelled: a text with an exponent is rejected.)  The
\* decimal read is the value's shortest decimal for the short literals
\* modelled.
ParseFloat(tok) ==
    LET signed == tok # <<>> /\ Head(tok) \in {PLUS, MINUS}
        neg == tok # <<>> /\ Head(tok) = MINUS
        body == IF signed THEN Tail(tok) ELSE tok
        n == DigitPrefixLen(body)
        int == SubSeq(body, 1, n)
        rest == SubSeq(body, n + 1, Len(body))
        hasDot == rest # <<>> /\ Head(rest) = DOT
        afterDot == IF hasDot THEN Tail(rest) ELSE rest
        m == DigitPrefixLen(afterDot)
        frac == SubSeq(afterDot, 1, m)
        junk == SubSeq(afterDot, m + 1, Len(afterDot))
        intText == IF int = <<>> THEN <<ZERO>> ELSE StripLeadingZeros(int)
        fracText == StripTrailingZeros(frac)
    IN  IF ToLower(body) = Str(<<"n", "a", "n">>) THEN Ok(NaN)
        ELSE IF ToLower(body) \in {Str(<<"i", "n", "f">>),
                                   Str(<<"i", "n", "f", "i", "n", "i", "t", "y">>)}
             THEN Ok(Infinity(neg))
        ELSE IF junk # <<>> \/ (int = <<>> /\ frac = <<>>) THEN Err(ParseFloatError)
        ELSE Ok(Finite(neg, DigitsOf(intText), DigitsOf(fracText)))

\* f32/f64::to_string: "NaN", "inf" or "-inf", or the sign, the digits before
\* the point and, when there are any, the point and the digits after it.
FloatToString(f) ==
    IF f.class = "nan" THEN Str(<<"N", "a", "N">>)
    ELSE IF f.class = "inf" THEN (IF f.neg THEN <<MINUS>> ELSE <<>>) \o Str(<<"i", "n", "f">>)
    ELSE (IF f.neg THEN <<MINUS>> ELSE <<>>) \o TextOf(f.int)
         \o (IF f.frac = <<>> THEN <<>> ELSE <<DOT>> \o TextOf(f.frac))

\* The floats whose bit patterns the model knows: 0, 1, -5, 3.5, 0.1 and a NaN.
F0 == Finite(FALSE, <<0>>, <<>>)
F1 == Finite(FALSE, <<1>>, <<>>)
FNeg5 == Finite(TRUE, <<5>>, <<>>)
F3p5 == Finite(FALSE, <<3>>, <<5>>)
F0p1 == Finite(FALSE, <<0>>, <<1>>)
FloatSamples == {F0, F1, FNeg5, F3p5, F0p1, NaN}

\* A float known by its bit pattern alone (most significant byte first).
FloatOfBits(bits) == [class |-> "bits", neg |-> FALSE, int |-> bits, frac |-> <<>>]

\* f32::to_bits and f64::to_bits, most significant byte first.
F32Bits(f) ==
    IF f.class = "bits" THEN f.int ELSE
    CASE
         f = F0 -> <<0, 0, 0, 0>>
      [] f = F1 -> <<63, 128, 0, 0>>
      [] f = FNeg5 -> <<192, 160, 0, 0>>
      [] f = F3p5 -> <<64, 96, 0, 0>>
      [] f = F0p1 -> <<61, 204, 204, 205>>
      [] f = NaN -> <<127, 192, 0, 0>>

F64Bits(f) ==
    IF f.class = "bits" THEN f.int ELSE
    CASE
         f = F0 -> <<0, 0, 0, 0, 0, 0, 0, 0>>
      [] f = F1 -> <<63, 240, 0, 0, 0, 0, 0, 0>>
      [] f = FNeg5 -> <<192, 20, 0, 0, 0, 0, 0, 0>>
      [] f = F3p5 -> <<64, 12, 0, 0, 0, 0, 0, 0>>
      [] f = F0p1 -> <<63, 185, 153, 153, 153, 153, 153, 154>>
      [] f = NaN -> <<127, 248, 0, 0, 0, 0, 0, 0>>

Reverse(s) == [i \in 1..Len(s) |-> s[Len(s) + 1 - i]]

\* IntToLE with the bytes in big-endian order.
IntToBE(v, size) == [i \in 1..size |-> (v \div (256 ^ (size - i))) % 256]

\* byteorder's write_u8 .. write_i32::<LittleEndian>: the two's complement
\* of the value, least significant byte first.
IntToLE(v, size) == [i \in 1..size |-> (v \div (256 ^ (i - 1))) % 256]

\* byteorder's read_u8 .. read_i32::<LittleEndian>
RECURSIVE UnsignedFromLE(_)
UnsignedFromLE(bytes) ==
    IF bytes = <<>> THEN 0 ELSE Head(bytes) + 256 * UnsignedFromLE(Tail(bytes))

SignedFromLE(bytes) ==
    LET n == Len(bytes)
        top == IF bytes[n] >= 128 THEN bytes[n] - 256 ELSE bytes[n]
    IN  UnsignedFromLE(SubSeq(bytes, 1, n - 1)) + (256 ^ (n - 1)) * top

\* One element as byteorder writes it.
ValueToLE(v, kind) ==
    CASE kind \in IntKinds -> IntToLE(v, KindSize(kind))
      [] kind = "F32" -> Reverse(F32Bits(v))
      [] kind = "F64" -> Reverse(F64Bits(v))

\* One element as byteorder reads it from exactly KindSize(kind) bytes.
ValueFromLE(bytes, kind) ==
    CASE kind \in {"U8", "U16", "U32"} -> UnsignedFromLE(bytes)
      [] kind \in {"I8", "I16", "I32"} -> SignedFromLE(bytes)
      [] kind = "F32" ->
            IF \E f \in FloatSamples : F32Bits(f) = Reverse(bytes)
            THEN CHOOSE f \in FloatSamples : F32Bits(f) = Reverse(bytes)
            ELSE FloatOfBits(Reverse(bytes))
      [] kind = "F64" ->
            IF \E f \in FloatSamples : F64Bits(f) = Reverse(bytes)
            THEN CHOOSE f \in FloatSamples : F64Bits(f) = Reverse(bytes)
            ELSE FloatOfBits(Reverse(bytes))

\* One element as to_string prints it, and as str::parse reads it.
ValueToString(v, kind) == IF kind \in IntKinds THEN IntToString(v) ELSE FloatToString(v)
ParseValue(tok, kind) == IF kind \in IntKinds THEN ParseInt(tok, kind) ELSE ParseFloat(tok)

----------------------------------------------------------------------------
(* The data model: FieldDef, Schema, Field, DynRecord *)

FieldDef(name, kind, count) == [name |-> name, kind |-> kind, count |-> count]

\* Field: the variant tag and the Vec of elements it holds.
Field(kind, values) == [kind |-> kind, values |-> values]

\* Field::kind and Field::count
FieldKind(field) == field.kind
FieldCount(field) == Len(field.values)

\* is_schema_consistent without the comparison of the lengths: the zipped
\* pairs alone, which end with the shorter of the two.
is_schema_consistent_zip_only(record, schema) ==
    \A i \in 1..(IF Len(record) < Len(schema) THEN Len(record) ELSE Len(schema)) :
        IF FieldCount(record[i]) # schema[i].count THEN FALSE
        ELSE FieldKind(record[i]) = schema[i].kind

\* is_schema_consistent without the comparison of the counts.
is_schema_consistent_kinds_only(record, schema) ==
    IF Len(record) # Len(schema) THEN FALSE
    ELSE \A i \in 1..Len(record) : FieldKind(record[i]) = schema[i].kind

\* DynRecord::is_schema_consistent: the lengths agree and every zipped pair
\* agrees on the count and then on the kind.
is_schema_consistent(record, schema) ==
    IF Len(record) # Len(schema) THEN FALSE
    ELSE \A i \in 1..Len(record) :
            IF FieldCount(record[i]) # schema[i].count THEN FALSE
            ELSE FieldKind(record[i]) = schema[i].kind

----------------------------------------------------------------------------
(* A Write + Seek sink and a BufRead source: the bytes and the cursor *)

Stream(bytes, at) == [bytes |-> bytes, pos |-> at]

\* Write::write_all at the cursor: the bytes under the cursor are replaced,
\* the sink grows when the write runs past its end, the cursor advances.
WriteAt(w, data) ==
    LET end == w.pos + Len(data)
    IN  Stream(SubSeq(w.bytes, 1, w.pos) \o data
                 \o SubSeq(w.bytes, end + 1, Len(w.bytes)),
               end)

\* Seek::seek(SeekFrom::Start(at)) and Seek::seek(SeekFrom::Current(0))
SeekStart(w, at) == Stream(w.bytes, at)
SeekCurrent(w) == w.pos

----------------------------------------------------------------------------
(* impl PcdSerialize for DynRecord *)

\* anyhow's bail!: an error that carries its message and nothing else.
Bail(msg) == [kind |-> "Message", msg |-> msg]
NotConsistentMsg == "The content of record does not match the writer schema."

\* What a write returns: the result, and the sink as the call left it.
Wrote(result, w) == [result |-> result, w |-> w]

\* The elements of one field, each written little-endian.
FieldChunk(field) ==
    Concat([i \in 1..Len(field.values) |-> ValueToLE(field.values[i], field.kind)])

\* The loop of write_chunk: one field after the other, in record order.
RECURSIVE WriteFields(_, _)
WriteFields(fields, w) ==
    IF fields = <<>> THEN w
    ELSE WriteFields(Tail(fields), WriteAt(w, FieldChunk(Head(fields))))

\* DynRecord::write_chunk
write_chunk(record, w, spec) ==
    IF ~is_schema_consistent(record, spec) THEN Wrote(Err(Bail(NotConsistentMsg)), w)
    ELSE Wrote(Ok(<<>>), WriteFields(record, w))

\* The tokens of write_line: every element of every field, to_string.
FieldTokens(field) ==
    [i \in 1..Len(field.values) |-> ValueToString(field.values[i], field.kind)]

\* DynRecord::write_line
write_line(record, w, spec) ==
    IF ~is_schema_consistent(record, spec) THEN Wrote(Err(Bail(NotConsistentMsg)), w)
    ELSE LET tokens == Concat([i \in 1..Len(record) |-> FieldTokens(record[i])])
         IN  Wrote(Ok(<<>>), WriteAt(w, Join(tokens, <<SP>>) \o <<NL>>))

----------------------------------------------------------------------------
(* impl PcdDeserialize for DynRecord *)

\* What a read returns: the result, and the source as the call left it.
Read(result, r) == [result |-> result, r |-> r]

\* `count` elements of `kind` read one after the other; an element that
\* runs past the end of the source fails with UnexpectedEof.
RECURSIVE ReadValues(_, _, _)
ReadValues(r, kind, count) ==
    IF count = 0 THEN Read(Ok(<<>>), r)
    ELSE IF r.pos + KindSize(kind) > Len(r.bytes)
         THEN Read(Err(IoUnexpectedEof), Stream(r.bytes, Len(r.bytes)))
    ELSE LET v == ValueFromLE(SubSeq(r.bytes, r.pos + 1, r.pos + KindSize(kind)), kind)
             more == ReadValues(Stream(r.bytes, r.pos + KindSize(kind)), kind, count - 1)
         IN  IF IsErr(more.result) THEN more
             ELSE Read(Ok(<<v>> \o more.result.val), more.r)

\* ReadChunkFields with the arm of U8 pasted over the arm of U16: a u16
\* descriptor is read as u16 elements and wrapped as Field::U8.
RECURSIVE ReadChunkFieldsPasted(_, _)
ReadChunkFieldsPasted(r, defs) ==
    IF defs = <<>> THEN Read(Ok(<<>>), r)
    ELSE LET first == ReadValues(r, Head(defs).kind, Head(defs).count)
             tag == IF Head(defs).kind = "U16" THEN "U8" ELSE Head(defs).kind
         IN  IF IsErr(first.result) THEN first
             ELSE LET more == ReadChunkFieldsPasted(first.r, Tail(defs))
                  IN  IF IsErr(more.result) THEN more
                      ELSE Read(Ok(<<Field(tag, first.result.val)>> \o more.result.val),
                                more.r)

\* The map over field_defs of read_chunk: one Field per descriptor, in
\* schema order; the first error ends it.
RECURSIVE ReadChunkFields(_, _)
ReadChunkFields(r, defs) ==
    IF defs = <<>> THEN Read(Ok(<<>>), r)
    ELSE LET first == ReadValues(r, Head(defs).kind, Head(defs).count)
         IN  IF IsErr(first.result) THEN first
             ELSE LET more == ReadChunkFields(first.r, Tail(defs))
                  IN  IF IsErr(more.result) THEN more
                      ELSE Read(Ok(<<Field(Head(defs).kind, first.result.val)>>
                                     \o more.result.val), more.r)

\* DynRecord::read_chunk
read_chunk(r, field_defs) == ReadChunkFields(r, field_defs)

\* u8::is_ascii_whitespace: space, tab, line feed, form feed, carriage return
IsAsciiWhitespace(b) == b \in {32, 9, 10, 12, 13}

\* BufRead::read_line: the bytes up to and including the next line feed, or
\* up to the end of the source.
RECURSIVE LineLen(_)
LineLen(bytes) ==
    IF bytes = <<>> THEN 0
    ELSE IF Head(bytes) = NL THEN 1
    ELSE 1 + LineLen(Tail(bytes))

\* str::split_ascii_whitespace: the maximal runs of non-whitespace bytes.
RECURSIVE SplitFrom(_, _)
SplitFrom(text, tok) ==
    IF text = <<>> THEN (IF tok = <<>> THEN <<>> ELSE <<tok>>)
    ELSE IF IsAsciiWhitespace(Head(text))
         THEN (IF tok = <<>> THEN <<>> ELSE <<tok>>) \o SplitFrom(Tail(text), <<>>)
    ELSE SplitFrom(Tail(text), Append(tok, Head(text)))

split_ascii_whitespace(text) == SplitFrom(text, <<>>)

\* new_text_token_mismatch_error with its two arguments exchanged.
new_text_token_mismatch_error_swapped(expect, found) ==
    [kind |-> "TextTokenMismatchError", expect |-> found, found |-> expect]

\* error.rs: Error::new_text_token_mismatch_error
new_text_token_mismatch_error(expect, found) ==
    [kind |-> "TextTokenMismatchError", expect |-> expect, found |-> found]

\* field_defs.iter().map(|def| def.count as usize).sum()
RECURSIVE SumCounts(_)
SumCounts(defs) == IF defs = <<>> THEN 0 ELSE Head(defs).count + SumCounts(Tail(defs))

\* ParseTokens with a token that does not parse read as the kind's zero.
RECURSIVE ParseTokensLenient(_, _, _)
ParseTokensLenient(tokens, kind, count) ==
    IF count = 0 THEN Ok(<<>>)
    ELSE LET v == ParseValue(Head(tokens), kind)
             zero == IF kind \in IntKinds THEN 0 ELSE Finite(FALSE, <<0>>, <<>>)
             more == ParseTokensLenient(Tail(tokens), kind, count - 1)
         IN  Ok(<<IF IsErr(v) THEN zero ELSE v.val>> \o more.val)

\* `count` tokens parsed one after the other as `kind`; the first token that
\* does not parse ends it with that parse error.
RECURSIVE ParseTokens(_, _, _)
ParseTokens(tokens, kind, count) ==
    IF count = 0 THEN Ok(<<>>)
    ELSE LET v == ParseValue(Head(tokens), kind)
         IN  IF IsErr(v) THEN v
             ELSE LET more == ParseTokens(Tail(tokens), kind, count - 1)
                  IN  IF IsErr(more) THEN more ELSE Ok(<<v.val>> \o more.val)

\* The map over field_defs of read_line: the tokens are taken in schema order.
RECURSIVE ReadLineFields(_, _)
ReadLineFields(tokens, defs) ==
    IF defs = <<>> THEN Ok(<<>>)
    ELSE LET d == Head(defs)
             first == ParseTokens(tokens, d.kind, d.count)
         IN  IF IsErr(first) THEN first
             ELSE LET more == ReadLineFields(SubSeq(tokens, d.count + 1, Len(tokens)), Tail(defs))
                  IN  IF IsErr(more) THEN more
                      ELSE Ok(<<Field(d.kind, first.val)>> \o more.val)

\* DynRecord::read_line
read_line(r, field_defs) ==
    LET n == LineLen(SubSeq(r.bytes, r.pos + 1, Len(r.bytes)))
        line == SubSeq(r.bytes, r.pos + 1, r.pos + n)
        after == Stream(r.bytes, r.pos + n)
        tokens == split_ascii_whitespace(line)
        expect == SumCounts(field_defs)
    IN  IF Len(tokens) # expect
        THEN Read(Err(new_text_token_mismatch_error(expect, Len(tokens))), after)
        ELSE Read(ReadLineFields(tokens, field_defs), after)

----------------------------------------------------------------------------
(* The inputs the model draws *)

\* The greatest number of elements (the sum of the counts) of a drawn schema.
MaxElems == 2
\* The number of ways a record of a given shape is filled with values.
NumFills == 2
\* The greatest number of pushes to one writer.
MaxPushes == 3
\* The greatest length of a drawn binary source.
MaxBytes == 8

\* Values of each kind: the least and the greatest, and one in between.
Samples(kind) ==
    CASE kind = "I8" -> <<-128, 127, -1>>
      [] kind = "I16" -> <<-32768, 32767, -2>>
      [] kind = "I32" -> <<-2147483647 - 1, 2147483647, -3>>
      [] kind = "U8" -> <<0, 255, 7>>
      [] kind = "U16" -> <<0, 65535, 258>>
      [] kind = "U32" -> <<0, 2147483647, 65536>>
      [] kind = "F32" -> <<F3p5, FNeg5, NaN, F0p1>>
      [] kind = "F64" -> <<F0p1, NaN, F1, F0>>

NoName == <<>>

\* Every schema of at most MaxElems elements in all, each field of one
\* element or more.
RECURSIVE SchemasOf(_)
SchemasOf(elems) ==
    {<<>>} \cup
    UNION {{<<FieldDef(NoName, k, c)>> \o rest : rest \in SchemasOf(elems - c)} :
              k \in ValueKinds, c \in 1..elems}

Schemas == SchemasOf(MaxElems)

\* A record of the shape of `schema`, its elements taken in turn from the
\* kind's values, starting at the v-th.
Fill(schema, v) ==
    [i \in 1..Len(schema) |->
        Field(schema[i].kind,
              [j \in 1..schema[i].count |->
                  LET vs == Samples(schema[i].kind)
                  IN  vs[((v + i + j) % Len(vs)) + 1]])]

\* The shapes one step away from `schema`: a field less, a field more, another
\* kind at one position, another count at one position.
Neighbours(schema) ==
    (IF schema = <<>> THEN {} ELSE {SubSeq(schema, 1, Len(schema) - 1)})
    \cup {Append(schema, FieldDef(NoName, k, 1)) : k \in ValueKinds}
    \cup UNION {{[schema EXCEPT ![i].kind = k] : k \in ValueKinds \ {schema[i].kind}} :
                   i \in 1..Len(schema)}
    \cup UNION {{[schema EXCEPT ![i].count = c] :
                    c \in {schema[i].count - 1, schema[i].count + 1}} :
                   i \in 1..Len(schema)}

\* The records offered to an encoder whose schema is `schema`: records of
\* its shape, and records of the neighbouring shapes.
RecordsAround(schema) ==
    {Fill(schema, v) : v \in 1..NumFills} \cup {Fill(n, 1) : n \in Neighbours(schema)}

\* What lies in the sink before an encode, and in the source after a record.
Prefixes == {<<NL, 7>>}
Tails == {<<>>, <<57, NL>>}

\* The drawn binary sources: zeros, a rising and a falling run of bytes, of
\* every length up to MaxBytes.
ByteStrings == {[i \in 1..n |-> (b * i) % 128] : n \in 0..MaxBytes, b \in {0, 7, 127}}

\* The tokens of a drawn text line: 9, -9, 999, 9.5 and a lone sign.
Tokens ==
    {Str(<<"9">>), Str(<<"-", "9">>), Str(<<"9", "9", "9">>), Str(<<"9", ".", "5">>),
     Str(<<"-">>)}

\* The separator of a drawn text line: a tab and a space (the lines that
\* write_line writes have a single space).
Separator == <<9, SP>>

\* Every sequence of at most n tokens; a line is one of them, ended by a
\* line feed.
RECURSIVE TokenSeqs(_)
TokenSeqs(n) ==
    IF n = 0 THEN {<<>>}
    ELSE TokenSeqs(n - 1) \cup
         {<<t>> \o ts : t \in Tokens, ts \in {x \in TokenSeqs(n - 1) : Len(x) = n - 1}}

Lines == {Join(ts, Separator) \o <<NL>> : ts \in TokenSeqs(MaxElems)}

----------------------------------------------------------------------------
(* The codec: one call of the dynamic record's encoders and decoders *)

NoCall == [op |-> "none"]

\* write_chunk of a drawn record against a drawn schema
EncodeChunk ==
    /\ call.op = "none"
    /\ \E schema \in Schemas, prefix \in Prefixes :
        \E record \in RecordsAround(schema) :
            LET w == Stream(prefix, Len(prefix))
            IN  call' = [op |-> "write_chunk", schema |-> schema, record |-> record,
                         before |-> w, out |-> write_chunk(record, w, schema)]
    /\ UNCHANGED wvars

\* write_line of a drawn record against a drawn schema
EncodeLine ==
    /\ call.op = "none"
    /\ \E schema \in Schemas, prefix \in Prefixes :
        \E record \in RecordsAround(schema) :
            LET w == Stream(prefix, Len(prefix))
            IN  call' = [op |-> "write_line", schema |-> schema, record |-> record,
                         before |-> w, out |-> write_line(record, w, schema)]
    /\ UNCHANGED wvars

\* read_chunk, with the same schema, of what a write_chunk wrote (and of
\* whatever follows it in the source)
DecodeChunk ==
    /\ call.op = "write_chunk" /\ IsOk(call.out.result)
    /\ \E tail \in Tails :
        LET r == Stream(call.out.w.bytes \o tail, call.before.pos)
        IN  call' = [op |-> "read_chunk", schema |-> call.schema, record |-> call.record,
                     before |-> r, end |-> call.out.w.pos,
                     out |-> read_chunk(r, call.schema)]
    /\ UNCHANGED wvars

\* read_line, with the same schema, of what a write_line wrote
DecodeLine ==
    /\ call.op = "write_line" /\ IsOk(call.out.result)
    /\ \E tail \in Tails :
        LET r == Stream(call.out.w.bytes \o tail, call.before.pos)
        IN  call' = [op |-> "read_line", schema |-> call.schema, record |-> call.record,
                     before |-> r, end |-> call.out.w.pos,
                     out |-> read_line(r, call.schema)]
    /\ UNCHANGED wvars

\* read_line of a drawn text line
DecodeText ==
    /\ call.op = "none"
    /\ \E schema \in Schemas, line \in Lines :
        LET r == Stream(line, 0)
        IN  call' = [op |-> "read_text", schema |-> schema, record |-> <<>>,
                     before |-> r, out |-> read_line(r, schema)]
    /\ UNCHANGED wvars

\* read_chunk of a drawn binary source
DecodeBytes ==
    /\ call.op = "none"
    /\ \E schema \in Schemas, bytes \in ByteStrings :
        LET r == Stream(bytes, 0)
        IN  call' = [op |-> "read_bytes", schema |-> schema, record |-> <<>>,
                     before |-> r, out |-> read_chunk(r, schema)]
    /\ UNCHANGED wvars

\* is_schema_consistent of a drawn record against a drawn schema
CheckSchema ==
    /\ call.op = "none"
    /\ \E schema \in Schemas :
        \E record \in RecordsAround(schema) :
            call' = [op |-> "is_schema_consistent", schema |-> schema, record |-> record,
                     out |-> is_schema_consistent(record, schema)]
    /\ UNCHANGED wvars

WriterIdle ==
    /\ wstate = "none" /\ builder = <<>> /\ sink = <<>> /\ pos = 0
    /\ num_records = 0 /\ points_arg_begin = 0 /\ points_arg_width = 0
    /\ wcall = NoCall /\ pushed = <<>>

CodecInit == WriterIdle /\ call = NoCall

CodecNext ==
    \/ EncodeChunk \/ EncodeLine \/ DecodeChunk \/ DecodeLine \/ DecodeText
    \/ DecodeBytes \/ CheckSchema

SpecCodec == CodecInit /\ [][CodecNext]_vars

----------------------------------------------------------------------------
(* seq_writer.rs: SeqWriterBuilder and SeqWriter *)

\* The record type T of a writer: DynRecord itself, whose is_dynamic() is
\* true and whose write_spec() is unreachable!(), or a statically shaped
\* record: a type that holds a dynamic record, whose write_spec() is a fixed
\* schema and whose write_chunk and write_line are DynRecord's, called with
\* the writer's record_spec.
DynRecordType == [is_dynamic |-> TRUE, write_spec |-> <<>>]
StaticType(schema) == [is_dynamic |-> FALSE, write_spec |-> schema]

\* What a call returns besides Ok and Err: the panic of unreachable!().
Panic(msg) == [tag |-> "Panic", msg |-> msg]

\* error.rs: PCDError::new_invalid_argument_error
new_invalid_argument_error(desc) == [kind |-> "InvalidArgumentError", desc |-> desc]

\* T::write_spec()
write_spec(T) == IF T.is_dynamic THEN Panic("unreachable") ELSE Ok(T.write_spec)

\* (usize::max_value() as f64).log10().floor() as usize + 1, where usize
\* has 64 bits: the number of decimal digits of 2^64
PointsArgWidth == 20

\* format!("{:<width$}", text): the text, then spaces up to the width; a
\* text longer than the width is written whole.
PadRight(text, width) ==
    text \o Repeat(SP, IF Len(text) >= width THEN 0 ELSE width - Len(text))

\* writeln!
Writeln(w, text) == WriteAt(w, text \o <<NL>>)

SizeArgs(record_spec) ==
    [i \in 1..Len(record_spec) |-> NatToString(KindSize(record_spec[i].kind))]
TypeArgs(record_spec) ==
    [i \in 1..Len(record_spec) |-> Str(<<KindType(record_spec[i].kind)>>)]
CountArgs(record_spec) ==
    [i \in 1..Len(record_spec) |-> NatToString(record_spec[i].count)]
FieldsArgs(record_spec) == [i \in 1..Len(record_spec) |-> record_spec[i].name]
ViewpointArgs(viewpoint) == [i \in 1..Len(viewpoint) |-> FloatToString(viewpoint[i])]

Banner == 
    Str(<<"#", " ", ".", "P", "C", "D", " ", "v", ".", "7", " ", "-", " ", "P", "o", "i",
          "n", "t", " ", "C", "l", "o", "u", "d", " ", "D", "a", "t", "a", " ", "f", "i",
          "l", "e", " ", "f", "o", "r", "m", "a", "t">>)
VersionLine == Str(<<"V", "E", "R", "S", "I", "O", "N", " ", ".", "7">>)
FieldsKey == Str(<<"F", "I", "E", "L", "D", "S", " ">>)
SizeKey == Str(<<"S", "I", "Z", "E", " ">>)
TypeKey == Str(<<"T", "Y", "P", "E", " ">>)
CountKey == Str(<<"C", "O", "U", "N", "T", " ">>)
WidthKey == Str(<<"W", "I", "D", "T", "H", " ">>)
HeightKey == Str(<<"H", "E", "I", "G", "H", "T", " ">>)
ViewpointKey == Str(<<"V", "I", "E", "W", "P", "O", "I", "N", "T", " ">>)
PointsKey == Str(<<"P", "O", "I", "N", "T", "S", " ">>)
DataBinary == Str(<<"D", "A", "T", "A", " ", "b", "i", "n", "a", "r", "y">>)
DataAscii == Str(<<"D", "A", "T", "A", " ", "a", "s", "c", "i", "i">>)

\* The first nine writeln! of write_meta: the banner to the VIEWPOINT line.
MetaHead(b, w) ==
    LET w1 == Writeln(w, Banner)
        w2 == Writeln(w1, VersionLine)
        w3 == Writeln(w2, FieldsKey \o Join(FieldsArgs(b.record_spec), <<SP>>))
        w4 == Writeln(w3, SizeKey \o Join(SizeArgs(b.record_spec), <<SP>>))
        w5 == Writeln(w4, TypeKey \o Join(TypeArgs(b.record_spec), <<SP>>))
        w6 == Writeln(w5, CountKey \o Join(CountArgs(b.record_spec), <<SP>>))
        w7 == Writeln(w6, WidthKey \o NatToString(b.width))
        w8 == Writeln(w7, HeightKey \o NatToString(b.height))
    IN  Writeln(w8, ViewpointKey \o Join(ViewpointArgs(b.viewpoint), <<SP>>))

\* The DATA line of write_meta.
DataLine(b) == IF b.data_kind = "Binary" THEN DataBinary ELSE DataAscii

\* write_meta with the position of the reservation taken before "POINTS " is
\* written.
write_meta_begin_early(b, w) ==
    LET w9 == MetaHead(b, w)
        begin == SeekCurrent(w9)
        w10 == WriteAt(w9, PointsKey)
        w11 == Writeln(w10, PadRight(<<SP>>, PointsArgWidth))
        w12 == Writeln(w11, DataLine(b))
    IN  [w |-> w12, points_arg_begin |-> begin, points_arg_width |-> PointsArgWidth]

\* SeqWriter::write_meta: the header lines, one writeln! after the other;
\* points_arg_begin is where the cursor stands after "POINTS ".
write_meta(b, w) ==
    LET w9 == MetaHead(b, w)
        w10 == WriteAt(w9, PointsKey)
        begin == SeekCurrent(w10)
        w11 == Writeln(w10, PadRight(<<SP>>, PointsArgWidth))
        w12 == Writeln(w11, DataLine(b))
    IN  [w |-> w12, points_arg_begin |-> begin, points_arg_width |-> PointsArgWidth]

\* The record types, dimensions and viewpoints a writer is built with.
PointXYZ ==
    <<FieldDef(Str(<<"x">>), "F32", 1), FieldDef(Str(<<"y">>), "F32", 1),
      FieldDef(Str(<<"z">>), "F32", 1)>>
Tagged ==
    <<FieldDef(Str(<<"i", "d">>), "U16", 1), FieldDef(Str(<<"r", "g", "b">>), "U8", 3),
      FieldDef(Str(<<"t">>), "I32", 1)>>
RecordTypes == {DynRecordType, StaticType(PointXYZ), StaticType(Tagged)}
DefaultViewpoint == <<F0, F0, F0, F1, F0, F0, F0>>
HeaderArgs ==
    {[width |-> 300, height |-> 1, viewpoint |-> DefaultViewpoint],
     [width |-> 640, height |-> 480, viewpoint |-> <<F3p5, FNeg5, F0p1, F1, F0, F0, F0>>]}
DataKinds == {"ASCII", "Binary"}

\* SeqWriterBuilder::<T>::new(width, height, viewpoint, data_kind): the
\* builder it returns, or the panic of T::write_spec()
new(T, width, height, viewpoint, data_kind) ==
    LET record_spec == write_spec(T)
        args == [T |-> T, width |-> width, height |-> height, data_kind |-> data_kind]
    IN  IF record_spec.tag = "Panic"
        THEN /\ wstate' = "panicked"
             /\ wcall' = [op |-> "new", arg |-> args, ret |-> record_spec]
             /\ UNCHANGED builder
        ELSE /\ wstate' = "builder"
             /\ builder' = [width |-> width, height |-> height, viewpoint |-> viewpoint,
                            data_kind |-> data_kind, record_spec |-> record_spec.val]
             /\ wcall' = [op |-> "new", arg |-> args, ret |-> Ok(<<>>)]

\* SeqWriterBuilder::<T>::new for the dynamic type and two static types
BuilderNew ==
    /\ wstate = "none"
    /\ \E T \in RecordTypes, h \in HeaderArgs, data_kind \in DataKinds :
        new(T, h.width, h.height, h.viewpoint, data_kind)
    /\ UNCHANGED <<sink, pos, num_records, points_arg_begin, points_arg_width, pushed, call>>

\* SeqWriterBuilder::from_writer on an empty sink: SeqWriter::new
FromWriter ==
    /\ wstate = "builder"
    /\ LET meta == write_meta(builder, Stream(<<>>, 0))
       IN  /\ sink' = meta.w.bytes
           /\ pos' = meta.w.pos
           /\ points_arg_begin' = meta.points_arg_begin
           /\ points_arg_width' = meta.points_arg_width
    /\ num_records' = 0
    /\ wstate' = "open"
    /\ wcall' = [op |-> "from_writer", arg |-> <<>>, ret |-> Ok(<<>>)]
    /\ UNCHANGED <<builder, pushed, call>>

\* CountAfterPush with the increment lost: the count written is the one
\* before the push.
CountBeforePush(n) == n

\* The count that push writes into the header: num_records after its increment.
CountAfterPush(n) == n + 1

\* CountText padded to one byte more than the reserved width.
CountTextWide(n, width) == PadRight(NatToString(n), width + 1)

\* The bytes push writes over the reserved field.
CountText(n, width) == PadRight(NatToString(n), width)

\* PatchCount without the seek back to the append position.
PatchCountNoSeekBack(w, n, begin, width) ==
    WriteAt(SeekStart(w, begin), CountText(n, width))

\* The count patch of push: remember the append position, seek to the
\* reserved field, write the count over it, seek back.
PatchCount(w, n, begin, width) ==
    LET eof_pos == SeekCurrent(w)
        w1 == SeekStart(w, begin)
        w2 == WriteAt(w1, CountText(n, width))
    IN  SeekStart(w2, eof_pos)

\* The record's encode in the writer's data kind, at the sink's cursor.
Encode(record) ==
    IF builder.data_kind = "Binary"
    THEN write_chunk(record, Stream(sink, pos), builder.record_spec)
    ELSE write_line(record, Stream(sink, pos), builder.record_spec)

\* push with the count incremented before the encode is tried, so that a
\* failed push counts too.
push_counting_first(record) ==
    LET enc == Encode(record)
        n == CountAfterPush(num_records)
    IN  IF IsErr(enc.result)
        THEN /\ num_records' = n
             /\ sink' = enc.w.bytes
             /\ pos' = enc.w.pos
             /\ wcall' = [op |-> "push", arg |-> record, ret |-> enc.result]
             /\ UNCHANGED pushed
        ELSE LET w == PatchCount(enc.w, n, points_arg_begin, points_arg_width)
             IN  /\ num_records' = n
                 /\ sink' = w.bytes
                 /\ pos' = w.pos
                 /\ wcall' = [op |-> "push", arg |-> record, ret |-> Ok(<<>>)]
                 /\ pushed' = Append(pushed, record)

\* SeqWriter::push: an encode error returns at once (the ? operator);
\* otherwise the count is incremented and patched into the header.
push(record) ==
    LET enc == Encode(record)
    IN  IF IsErr(enc.result)
        THEN /\ sink' = enc.w.bytes
             /\ pos' = enc.w.pos
             /\ wcall' = [op |-> "push", arg |-> record, ret |-> enc.result]
             /\ UNCHANGED <<num_records, pushed>>
        ELSE LET n == CountAfterPush(num_records)
                 w == PatchCount(enc.w, n, points_arg_begin, points_arg_width)
             IN  /\ num_records' = n
                 /\ sink' = w.bytes
                 /\ pos' = w.pos
                 /\ wcall' = [op |-> "push", arg |-> record, ret |-> Ok(<<>>)]
                 /\ pushed' = Append(pushed, record)

Push ==
    /\ wstate = "open"
    /\ Len(pushed) < MaxPushes
    /\ \E record \in RecordsAround(builder.record_spec) : push(record)
    /\ UNCHANGED <<wstate, builder, points_arg_begin, points_arg_width, call>>

Init == WriterIdle /\ call = NoCall

Next == BuilderNew \/ FromWriter \/ Push

Spec == Init /\ [][Next]_vars

\* The name of the i-th field of a static type made from a drawn schema.
FieldName(i) == Str(<<"f">>) \o NatToString(i)

\* A static record type for every drawn schema: every kind and every count
\* up to MaxElems appears in a header.
NamedSchema(schema) == [i \in 1..Len(schema) |-> [schema[i] EXCEPT !.name = FieldName(i)]]
AnyStaticTypes == {StaticType(NamedSchema(schema)) : schema \in Schemas}

\* SeqWriterBuilder::<T>::new for a static type of any drawn schema
BuilderNewAny ==
    /\ wstate = "none"
    /\ \E T \in AnyStaticTypes, h \in HeaderArgs, data_kind \in DataKinds :
        new(T, h.width, h.height, h.viewpoint, data_kind)
    /\ UNCHANGED <<sink, pos, num_records, points_arg_begin, points_arg_width, pushed, call>>

\* The writers of every record type, up to the written header.
HeaderNext == BuilderNewAny \/ FromWriter

SpecHeader == Init /\ [][HeaderNext]_vars

----------------------------------------------------------------------------
(* record.rs: DynRecord::xyz, and the primitive types as records *)

Some(v) == [tag |-> "Some", val |-> v]
None == [tag |-> "None"]
IsSome(o) == o.tag = "Some"

\* The value of a sequence of decimal digits.
RECURSIVE DigitsValue(_)
DigitsValue(ds) ==
    IF ds = <<>> THEN 0 ELSE 10 * DigitsValue(SubSeq(ds, 1, Len(ds) - 1)) + ds[Len(ds)]

\* `x as f64` of an f32: the same number, whose shortest decimal as an f64
\* is longer when the f32 was itself a rounding (0.1f32 is
\* 0.10000000149011612).
WidenF32(f) ==
    IF f = F0p1
    THEN Finite(FALSE, <<0>>, <<1, 0, 0, 0, 0, 0, 0, 0, 1, 4, 9, 0, 1, 1, 6, 1, 2>>)
    ELSE f

\* num_traits' FromPrimitive for the target type T (an integer type or f64),
\* T::from_i8 .. T::from_f64 as xyz calls them on an element of kind `kind`:
\*   integer to integer: the value when it lies in T's range, else None;
\*   float to integer: NaN and the infinities give None; a finite value is
\*     truncated toward zero and given when the truncated value lies in T's
\*     range;
\*   integer to f64, f32 to f64, f64 to f64: always Some, by `as`.
FromPrimitive(T, kind, v) ==
    IF T \in IntKinds
    THEN IF kind \in IntKinds
         THEN IF v >= KindMin(T) /\ v <= KindMax(T) THEN Some(v) ELSE None
         ELSE IF v.class # "finite" THEN None
              ELSE LET t == IF v.neg THEN 0 - DigitsValue(v.int) ELSE DigitsValue(v.int)
                   IN  IF t >= KindMin(T) /\ t <= KindMax(T) THEN Some(t) ELSE None
    ELSE IF kind \in IntKinds
         THEN Some(Finite(v < 0, DigitsOf(IF v < 0 THEN NegDigits(v) ELSE NatToString(v)), <<>>))
         ELSE IF kind = "F32" THEN Some(WidenF32(v)) ELSE Some(v)

\* DynRecord::xyz::<T>: the slice self.0[0..3] panics on fewer than three
\* fields, the match panics unless the three are of one variant, x[0] panics
\* on an empty field; otherwise Some of the three converted first elements
\* when the three conversions gave Some, else None.
xyz(record, T) ==
    IF Len(record) < 3 THEN Panic("range end index 3 out of range for slice")
    ELSE LET x == record[1]
             y == record[2]
             z == record[3]
         IN  IF FieldKind(y) # FieldKind(x) \/ FieldKind(z) # FieldKind(x)
             THEN Panic("Point info is not complete!")
             ELSE IF \E f \in {x, y, z} : f.values = <<>>
             THEN Panic("index out of bounds")
             ELSE LET k == FieldKind(x)
                      cx == FromPrimitive(T, k, x.values[1])
                      cy == FromPrimitive(T, k, y.values[1])
                      cz == FromPrimitive(T, k, z.values[1])
                  IN  IF IsSome(cx) /\ IsSome(cy) /\ IsSome(cz)
                      THEN Ok(Some(<<cx.val, cy.val, cz.val>>))
                      ELSE Ok(None)

\* <u8|i8|u16|u32|i16|i32|f32|f64 as PcdDeserialize>::read_spec: one
\* descriptor, without a name, of the type's own kind, of one element.
primitive_read_spec(kind) == <<FieldDef(NoName, kind, 1)>>

\* <primitive as PcdDeserialize>::read_line: BufRead::read_line appends the
\* bytes up to and including the line feed (or up to the end of the source)
\* to `line`, and the whole of `line` is handed to str::parse; _field_defs
\* is not used.
primitive_read_line(r, kind) ==
    LET n == LineLen(SubSeq(r.bytes, r.pos + 1, Len(r.bytes)))
        line == SubSeq(r.bytes, r.pos + 1, r.pos + n)
    IN  Read(ParseValue(line, kind), Stream(r.bytes, r.pos + n))

\* The numeric types xyz is asked for: the integer types and f64.
XyzTargets == IntKinds \cup {"F64"}

\* Records whose first three fields are of one kind, the third with an
\* element more than xyz looks at; and records xyz cannot match.
XyzRecords ==
    UNION {LET vs == Samples(k)
           IN  {<<Field(k, <<vs[a]>>), Field(k, <<vs[b]>>), Field(k, <<vs[c], vs[a]>>)>> :
                   a \in 1..Len(vs), b \in 1..Len(vs), c \in 1..Len(vs)} :
              k \in ValueKinds}
    \cup {<<>>,
          <<Field("U8", <<7>>), Field("U8", <<7>>)>>,
          <<Field("U8", <<7>>), Field("I8", <<7>>), Field("U8", <<7>>)>>,
          <<Field("F32", <<F1>>), Field("F32", <<>>), Field("F32", <<F1>>)>>}

\* What a primitive's read_line is given: a literal, then a line feed, the
\* end of the source, or a line feed and a further line.
Literals == Tokens \cup {Str(<<"0">>), Str(<<"3", "0", "0">>), Str(<<"N", "a", "N">>)}
LineEndings == {<<NL>>, <<>>, <<NL, 57, NL>>}

\* xyz::<T> of a drawn record
Xyz ==
    /\ call.op = "none"
    /\ \E record \in XyzRecords, T \in XyzTargets :
        call' = [op |-> "xyz", record |-> record, T |-> T, out |-> xyz(record, T)]
    /\ UNCHANGED wvars

\* <primitive>::read_spec, then its read_line of a drawn line
ReadPrimitiveLine ==
    /\ call.op = "none"
    /\ \E kind \in ValueKinds, literal \in Literals, ending \in LineEndings :
        LET r == Stream(literal \o ending, 0)
            spec == primitive_read_spec(kind)
        IN  call' = [op |-> "primitive_read_line", kind |-> kind, spec |-> spec,
                     literal |-> literal, ending |-> ending, before |-> r,
                     out |-> primitive_read_line(r, kind)]
    /\ UNCHANGED wvars

RecordNext == Xyz \/ ReadPrimitiveLine

SpecRecord == CodecInit /\ [][RecordNext]_vars

----------------------------------------------------------------------------
(* The sequential writer's properties *)

\* The reserved POINTS field of the header, as it stands in the sink.
PointsField == SubSeq(sink, points_arg_begin + 1, points_arg_begin + points_arg_width)

\* A decimal number left-aligned in a field: its digits, then spaces only.
IsLeftAligned(field, n) ==
    LET digits == NatToString(n)
    IN  /\ Len(field) >= Len(digits)
        /\ SubSeq(field, 1, Len(digits)) = digits
        /\ \A i \in (Len(digits) + 1)..Len(field) : field[i] = SP

\* C1: after N >= 1 successful pushes (and any failed ones in between) the
\* reserved POINTS field of the header reads exactly N, left-aligned and
\* space-padded to the reserved width, and the running count is N; before
\* the first successful push the field is still the blank reservation.
C1_PointsFieldIsPushCount ==
    wstate = "open" =>
        /\ num_records = Len(pushed)
        /\ Len(PointsField) = points_arg_width
        /\ IF pushed = <<>> THEN \A i \in 1..Len(PointsField) : PointsField[i] = SP
           ELSE IsLeftAligned(PointsField, Len(pushed))

\* A push has just failed after two pushes succeeded.
C1_Witness ==
    /\ wstate = "open" /\ Len(pushed) = 2
    /\ wcall.op = "push" /\ IsErr(wcall.ret)

\* C2: a push whose record's encode fails appends nothing to the sink,
\* leaves the cursor, the running count and the header where they were, and
\* returns the encode's error.
C2_FailedPushChangesNothing ==
    [][(wstate = "open" /\ wcall' # wcall /\ wcall'.op = "push"
            /\ IsErr(Encode(wcall'.arg).result))
        => /\ sink' = sink
           /\ pos' = pos
           /\ num_records' = num_records
           /\ wcall'.ret = Encode(wcall'.arg).result]_vars

\* A binary push has just failed after a push succeeded.
C2_Witness ==
    /\ wstate = "open" /\ builder.data_kind = "Binary" /\ Len(pushed) >= 1
    /\ wcall.op = "push" /\ IsErr(wcall.ret)

\* The indices of the last bytes of the first k lines of a text, the lines
\* counted from the byte after `from`.
RECURSIVE LineEnds(_, _, _)
LineEnds(bytes, from, k) ==
    IF k = 0 THEN <<>>
    ELSE LET end == from + LineLen(SubSeq(bytes, from + 1, Len(bytes)))
         IN  <<end>> \o LineEnds(bytes, end, k - 1)

\* The end of the header: of the DATA line, the eleventh of the sink.
HeaderEnd == LineEnds(sink, 0, 11)[11]

\* Everything after the DATA line.
Body == SubSeq(sink, HeaderEnd + 1, Len(sink))

\* The bytes one record encodes to, in the writer's data kind.
Encoding(record) ==
    IF builder.data_kind = "Binary"
    THEN write_chunk(record, Stream(<<>>, 0), builder.record_spec).w.bytes
    ELSE write_line(record, Stream(<<>>, 0), builder.record_spec).w.bytes

\* C3: the body of the sink is the concatenation of the encodings of the
\* records pushed successfully, in push order, and the cursor stands at the
\* end of the sink, where the next record is appended.
C3_BodyIsPushedInOrder ==
    wstate = "open" =>
        /\ Body = Concat([i \in 1..Len(pushed) |-> Encoding(pushed[i])])
        /\ pos = Len(sink)

\* Three pushes succeeded, the first two of different records.
C3_Witness ==
    /\ wstate = "open" /\ Len(pushed) = 3 /\ pushed[1] # pushed[2]
    /\ wcall.op = "push" /\ IsOk(wcall.ret)

\* C4 (as claimed): constructing a writer for the dynamic record type fails
\* with an InvalidArgument error returned to the caller; no writer is built
\* and no header is emitted.
C4_DynamicTypeIsInvalidArgument ==
    (wcall.op = "new" /\ wcall.arg.T.is_dynamic) =>
        /\ IsErr(wcall.ret)
        /\ wcall.ret.err.kind = "InvalidArgumentError"
        /\ wstate \notin {"builder", "open"}
        /\ sink = <<>>

IsPrefix(p, t) == Len(p) <= Len(t) /\ SubSeq(t, 1, Len(p)) = p

\* The header keys in the order claimed, from the third line on.
HeaderKeys ==
    <<FieldsKey, SizeKey, TypeKey, CountKey, WidthKey, HeightKey, ViewpointKey, PointsKey>>

\* C6: the sink of a writer starts with the eleven header lines in this
\* order: the banner, VERSION .7, FIELDS, SIZE, TYPE, COUNT, WIDTH, HEIGHT,
\* VIEWPOINT with seven numbers, POINTS with the reserved field, DATA ascii
\* or binary; nothing but records follows; and points_arg_begin is the
\* offset just after "POINTS ".
C6_HeaderLineOrder ==
    wstate = "open" =>
        LET ends == LineEnds(sink, 0, 11)
            line(k) == SubSeq(sink, (IF k = 1 THEN 0 ELSE ends[k - 1]) + 1, ends[k] - 1)
        IN  /\ line(1) = Banner
            /\ line(2) = VersionLine
            /\ \A k \in 1..Len(HeaderKeys) : IsPrefix(HeaderKeys[k], line(k + 2))
            /\ Len(split_ascii_whitespace(line(9))) = 1 + 7
            /\ Len(line(10)) = Len(PointsKey) + points_arg_width
            /\ line(11) = (IF builder.data_kind = "Binary" THEN DataBinary ELSE DataAscii)
            /\ points_arg_begin = ends[9] + Len(PointsKey)
            /\ pushed = <<>> => Len(sink) = ends[11]

\* A binary writer just built, nothing pushed yet.
C6_Witness ==
    /\ wstate = "open" /\ wcall.op = "from_writer" /\ builder.data_kind = "Binary"
    /\ Len(builder.record_spec) = 3

----------------------------------------------------------------------------
(* The dynamic record's properties *)

\* A record and a schema disagree: in length, or at some position in the
\* kind or in the number of elements.
Disagree(record, schema) ==
    \/ Len(record) # Len(schema)
    \/ \E i \in 1..Len(record) :
        \/ record[i].kind # schema[i].kind
        \/ Len(record[i].values) # schema[i].count

\* The shape of a record: the kind and the element count of each field.
ShapeOf(record) ==
    [i \in 1..Len(record) |-> <<record[i].kind, Len(record[i].values)>>]

TokenCount(text) ==
    Cardinality({i \in 1..Len(text) :
        /\ ~IsAsciiWhitespace(text[i])
        /\ (i = 1 \/ IsAsciiWhitespace(text[i - 1]))})

\* The line a read_line call was given.
LineRead == SubSeq(call.before.bytes, call.before.pos + 1, Len(call.before.bytes))

\* C7: read_line of a line whose token count differs from the sum of the
\* schema's counts fails with TokenCountMismatch(expected = the sum, found =
\* the token count), whether or not the tokens would parse, and returns no
\* record.
C7_TokenCountMismatch ==
    (call.op = "read_text" /\ TokenCount(LineRead) # SumCounts(call.schema)) =>
        call.out.result =
            Err([kind |-> "TextTokenMismatchError", expect |-> SumCounts(call.schema),
                 found |-> TokenCount(LineRead)])

\* A line of two tokens, one of them a lone sign, read with a schema of one
\* element.
C7_Witness ==
    /\ call.op = "read_text" /\ SumCounts(call.schema) = 1
    /\ split_ascii_whitespace(LineRead) = <<Str(<<"9">>), Str(<<"-">>)>>

\* The kind of the descriptor that the j-th token of a line falls under.
RECURSIVE KindOfToken(_, _)
KindOfToken(schema, j) ==
    IF j <= Head(schema).count THEN Head(schema).kind
    ELSE KindOfToken(Tail(schema), j - Head(schema).count)

\* The tokens of the line read that do not parse as their descriptor's kind.
BadTokens ==
    LET tokens == split_ascii_whitespace(LineRead)
    IN  {j \in 1..Len(tokens) : IsErr(ParseValue(tokens[j], KindOfToken(call.schema, j)))}

RightCount == call.op = "read_text" /\ TokenCount(LineRead) = SumCounts(call.schema)

C9_BinaryRoundTrip ==
    call.op = "read_chunk" =>
        /\ call.out.result = Ok(call.record)
        /\ call.out.r.pos = call.end

\* The round trip of an i16 field and an f64 field, with bytes following.
C9_Witness ==
    /\ call.op = "read_chunk" /\ Len(call.record) = 2
    /\ call.record[1].kind = "I16" /\ call.record[1].values[1] < 0
    /\ call.record[2].kind = "F64"
    /\ Len(call.before.bytes) > call.end

AllIntKinds(schema) == \A i \in 1..Len(schema) : schema[i].kind \in IntKinds

\* C10: read_line, with the same schema, of the line write_line wrote for a
\* record consistent with a schema of integer kinds returns a record equal to
\* the original.
C10_AsciiIntRoundTrip ==
    (call.op = "read_line" /\ AllIntKinds(call.schema)) =>
        call.out.result = Ok(call.record)

\* The round trip of the least i32 and a u8, with a line following.
C10_Witness ==
    /\ call.op = "read_line" /\ Len(call.record) = 2
    /\ call.record[1].kind = "I32" /\ call.record[1].values[1] = -2147483647 - 1
    /\ call.record[2].kind = "U8"
    /\ Len(call.before.bytes) > call.end

----------------------------------------------------------------------------
(* Coordinate extraction and the primitive types *)

\* The first three fields of the record are there, of one kind, and not empty.
SharesKind(record) ==
    /\ Len(record) >= 3
    /\ \A i \in 1..3 : FieldKind(record[i]) = FieldKind(record[1]) /\ record[i].values # <<>>

\* An element of kind `kind` is a value of the type T: an integer in T's
\* range, or a finite float without a fractional part in T's range; every
\* element is a value of f64.
Exact(T, kind, v) ==
    IF T \notin IntKinds THEN TRUE
    ELSE IF kind \in IntKinds THEN v >= KindMin(T) /\ v <= KindMax(T)
    ELSE /\ v.class = "finite"
         /\ v.frac = <<>>
         /\ LET t == IF v.neg THEN 0 - DigitsValue(v.int) ELSE DigitsValue(v.int)
            IN  t >= KindMin(T) /\ t <= KindMax(T)

\* C11: xyz on a record whose first three fields share a kind returns three
\* values only when each of the three first elements converts exactly into
\* the type asked for, and returns no value otherwise, never a truncated one.
C11_XyzOnlyWhenExact ==
    (call.op = "xyz" /\ SharesKind(call.record)) =>
        LET rec == call.record
            exact == \A i \in 1..3 : Exact(call.T, FieldKind(rec[1]), rec[i].values[1])
        IN  /\ IsOk(call.out)
            /\ IsSome(call.out.val) <=> exact

\* C12: each of the eight primitive types reads as a record of one field:
\* read_spec gives one descriptor, without a name, of the type's kind and of
\* count 1, and read_line of a line that holds one valid literal of the kind,
\* its line feed included, returns the literal's value.
C12_PrimitiveLineReturnsValue ==
    (/\ call.op = "primitive_read_line"
     /\ call.ending = <<NL>>
     /\ IsOk(ParseValue(call.literal, call.kind))) =>
        /\ call.spec = <<[name |-> NoName, kind |-> call.kind, count |-> 1]>>
        /\ call.out.result = ParseValue(call.literal, call.kind)

----------------------------------------------------------------------------
(* The schema test *)

\* C13: is_schema_consistent is true exactly when the record has as many
\* fields as the schema has descriptors and, at every position, the field's
\* kind is the descriptor's kind and the field's element count is the
\* descriptor's count; it is false otherwise.
C13_ConsistentExactlyWhenShapesAgree ==
    call.op = "is_schema_consistent" =>
        (call.out = TRUE <=>
            /\ Len(call.record) = Len(call.schema)
            /\ \A i \in 1..Len(call.record) :
                  /\ call.record[i].kind = call.schema[i].kind
                  /\ Len(call.record[i].values) = call.schema[i].count)

\* The test says no to a record that has as many fields as its schema, each
\* of the right kind, one of them with an element too few or too many.
C13_Witness ==
    /\ call.op = "is_schema_consistent"
    /\ call.out = FALSE
    /\ Len(call.record) = Len(call.schema)
    /\ Len(call.record) >= 2
    /\ \A i \in 1..Len(call.record) : call.record[i].kind = call.schema[i].kind

----------------------------------------------------------------------------
(* The per-field lines of the header *)

\* The byte widths and the type letters of the kinds, as the PCD header
\* names them.
ClaimedSize(kind) ==
    CASE kind = "I8" -> 1 [] kind = "I16" -> 2 [] kind = "I32" -> 4
      [] kind = "U8" -> 1 [] kind = "U16" -> 2 [] kind = "U32" -> 4
      [] kind = "F32" -> 4 [] kind = "F64" -> 8

ClaimedLetter(kind) ==
    CASE kind \in {"U8", "U16", "U32"} -> Str(<<"U">>)
      [] kind \in {"I8", "I16", "I32"} -> Str(<<"I">>)
      [] kind \in {"F32", "F64"} -> Str(<<"F">>)

\* C14: the FIELDS, SIZE, TYPE and COUNT lines of the header (its third to
\* sixth lines) hold, after their key, one entry per field of the record
\* type, in the order of its schema: the field's name, the byte width of its
\* kind (I8 1, I16 2, I32 4, U8 1, U16 2, U32 4, F32 4, F64 8), the letter of
\* its kind (U, I or F), and its element count.
C14_PerFieldHeaderLines ==
    wstate = "open" =>
        LET ends == LineEnds(sink, 0, 6)
            entries(k) == split_ascii_whitespace(SubSeq(sink, ends[k - 1] + 1, ends[k] - 1))
            spec == builder.record_spec
            n == Len(spec)
        IN  /\ entries(3) = <<Str(<<"F", "I", "E", "L", "D", "S">>)>>
                             \o [i \in 1..n |-> spec[i].name]
            /\ entries(4) = <<Str(<<"S", "I", "Z", "E">>)>>
                             \o [i \in 1..n |-> NatToString(ClaimedSize(spec[i].kind))]
            /\ entries(5) = <<Str(<<"T", "Y", "P", "E">>)>>
                             \o [i \in 1..n |-> ClaimedLetter(spec[i].kind)]
            /\ entries(6) = <<Str(<<"C", "O", "U", "N", "T">>)>>
                             \o [i \in 1..n |-> NatToString(spec[i].count)]

\* The header of a record type of two fields of different widths and
\* letters, an f64 and an i16.
C14_Witness ==
    /\ wstate = "open"
    /\ Len(builder.record_spec) = 2
    /\ builder.record_spec[1].kind = "F64"
    /\ builder.record_spec[2].kind = "I16"

----------------------------------------------------------------------------
(* The count patch *)

\* The offsets (from 1) of the reserved field of the POINTS line.
Reserved == (points_arg_begin + 1)..(points_arg_begin + points_arg_width)

\* C15: a successful push changes, of the bytes the sink already held, none
\* but those of the reserved field [points_arg_begin, points_arg_begin +
\* points_arg_width): the text written over the field is exactly
\* points_arg_width bytes long, so the line feed that ends the POINTS line,
\* the DATA line, the rest of the header and the records already written
\* stay as they were, and the sink grows by the record's encoding alone,
\* with the cursor back at its end.
C15_PatchStaysInReservedField ==
    [][(wstate = "open" /\ pushed' # pushed)
        => /\ \A i \in (1..Len(sink)) \ Reserved : sink'[i] = sink[i]
           /\ Len(sink') = Len(sink) + Len(Encoding(wcall'.arg))
           /\ SubSeq(sink', Len(sink) + 1, Len(sink')) = Encoding(wcall'.arg)
           /\ sink'[points_arg_begin + points_arg_width + 1] = NL
           /\ \A i \in Reserved : sink'[i] = SP \/ IsDigit(sink'[i])
           /\ pos' = Len(sink')
           /\ UNCHANGED <<points_arg_begin, points_arg_width>>]_vars

\* An ASCII writer after its first successful push: the count has been
\* patched once and a line of text follows the header.
C15_Witness ==
    /\ wstate = "open" /\ builder.data_kind = "ASCII" /\ Len(pushed) = 1
    /\ wcall.op = "push" /\ IsOk(wcall.ret)
    /\ Len(sink) > HeaderEnd
    /\ sink[points_arg_begin + 1] = ZERO + 1

----------------------------------------------------------------------------
(* What the decoders return *)

\* C16: a record that read_chunk or read_line returns has the shape of the
\* schema it was decoded with (as many fields, each of its descriptor's kind
\* and count), is_schema_consistent says so, and encoding it again with that
\* schema does not fail.
C16_DecodedIsSchemaConsistent ==
    (call.op \in {"read_chunk", "read_bytes", "read_line", "read_text"}
        /\ IsOk(call.out.result)) =>
        LET rec == call.out.result.val
            schema == call.schema
            w == Stream(<<>>, 0)
        IN  /\ Len(rec) = Len(schema)
            /\ \A i \in 1..Len(rec) :
                  rec[i].kind = schema[i].kind /\ Len(rec[i].values) = schema[i].count
            /\ is_schema_consistent(rec, schema)
            /\ IF call.op \in {"read_chunk", "read_bytes"}
               THEN IsOk(write_chunk(rec, w, schema).result)
               ELSE IsOk(write_line(rec, w, schema).result)

\* A record of two fields decoded from a drawn binary source that is longer
\* than the record.
C16_Witness ==
    /\ call.op = "read_bytes" /\ IsOk(call.out.result)
    /\ Len(call.schema) = 2
    /\ call.out.r.pos < Len(call.before.bytes)

====
